---- MODULE Spec2Model ----
(***************************************************************************)
(* A model of the promise/chain execution engine of src/promises.py:       *)
(* _Promise.on / go / wait / _return / _wait, the calling contexts that    *)
(* use the Promises, and the background threads that go() creates.         *)
(***************************************************************************)
EXTENDS Integers, Sequences, FiniteSets, TLC

(* ---------------------------------------------------------------- bounds *)
\* The longest call chain the callers build with on().
MaxChain == 2
\* The number of go()/wait() calls one calling context makes.
MaxCalls == 2

\* The _Promise objects of the model, and the calling contexts (the main
\* thread and one more) that call their methods.
Promises == {1, 2}
Ctx == {1, 2}

(* ---------------------------------------------------------------- values *)
\* Python values as records of one shape, so that any two can be compared
\* the way `result == expected` compares them.
IntV(n) == [tag |-> "int", kind |-> "", a |-> n, b |-> 0]
NoneV == [tag |-> "none", kind |-> "", a |-> 0, b |-> 0]
\* The tuple (result, expected) that example.fail returns.
TupleV(r, e) == [tag |-> "tuple", kind |-> r.tag, a |-> r.a, b |-> e.a]
\* An exception object; kind is its class and message family.
ErrV(k, x, y) == [tag |-> "err", kind |-> k, a |-> x, b |-> y]
\* A new, unstarted _Promise object returned by a decorated function.
PromiseV(x) == [tag |-> "promise", kind |-> "", a |-> x.a, b |-> 0]

\* "... got an unexpected keyword argument 'no_promise'"
KwError == ErrV("TypeError: unexpected keyword argument", 0, 0)
\* a TypeError with any other message (arity, operand types)
ArgError == ErrV("TypeError", 0, 0)
\* "abs() takes no keyword arguments": how a builtin rejects no_promise=True
NoKwArgsError == ErrV("TypeError: takes no keyword arguments", 0, 0)
\* "g() got an unexpected keyword argument 'foo'", raised inside a handler's
\* own body by a call it makes
InnerKwError == ErrV("TypeError: unexpected keyword argument", 1, 0)
\* the exception a raising handler or entry function raises itself
BoomError == ErrV("RuntimeError", 0, 0)
\* ValueError("expected(e) does not equal result(r)")
raise_value_error_exc(result, expected) == ErrV("ValueError", expected.a, result.a)

Ret(v) == [kind |-> "ret", val |-> v]
Raise(e) == [kind |-> "raise", val |-> e]
Hang == [kind |-> "hang", val |-> NoneV]

\* `"unexpected keyword argument" in str(e)`
HasKwMessage(e) == e.kind = "TypeError: unexpected keyword argument"

(* ------------------------------------------------------------- callables *)
\* The functions the callers pass as entry points and handlers.
OnMatchFns == {"add_three", "wait_one", "fail", "boom"}
OtherwiseFns == {"fail", "wait_one", "None"}
ExpectedVals == {IntV(0), IntV(3)}

\* The undecorated body of a function called with positional args and,
\* when kw, the keyword no_promise=True.
PlainCall(fn, args, kw) ==
    CASE fn = "add_three" ->
           IF kw THEN Raise(KwError)
           ELSE IF Len(args) # 1 THEN Raise(ArgError)
           ELSE IF args[1].tag = "int" THEN Ret(IntV(args[1].a + 3))
           ELSE Raise(ArgError)
      [] fn = "fail" ->
           IF kw THEN Raise(KwError)
           ELSE IF Len(args) # 2 THEN Raise(ArgError)
           ELSE Ret(TupleV(args[1], args[2]))
      [] fn = "wait_one" ->
           IF kw THEN Raise(KwError)
           ELSE IF Len(args) # 1 THEN Raise(ArgError)
           ELSE Ret(args[1])
      [] fn = "boom" -> Raise(BoomError)
      [] fn = "abs" ->
           IF kw THEN Raise(NoKwArgsError)
           ELSE IF Len(args) # 1 THEN Raise(ArgError)
           ELSE IF args[1].tag = "int"
                THEN Ret(IntV(IF args[1].a < 0 THEN 0 - args[1].a ELSE args[1].a))
           ELSE Raise(ArgError)
      [] fn = "kw_boom" -> Raise(InnerKwError)
      [] fn = "report" ->
           IF kw THEN Raise(KwError)
           ELSE IF Len(args) # 2 THEN Raise(ArgError)
           ELSE Ret(TupleV(args[1], args[2]))
      [] fn = "hang" -> Hang
      [] fn = "raise_value_error" ->
           IF kw THEN Raise(KwError)
           ELSE IF Len(args) # 2 THEN Raise(ArgError)
           ELSE Raise(raise_value_error_exc(args[1], args[2]))
      [] OTHER -> Raise(ArgError)

\* Which of the functions are products of @promise.
Decorated == {"wait_one", "report"}

\* decorated_function without `del kwargs["no_promise"]`: the marker reaches
\* the wrapped function.
decorated_function_keeps_marker(fn, args, kw) ==
    IF kw THEN PlainCall(fn, args, TRUE)
    ELSE Ret(PromiseV(IF Len(args) > 0 THEN args[1] ELSE NoneV))

\* promise.decorated_function: with the bypass marker the wrapped function
\* runs now, without it a new _Promise is returned and nothing runs.
decorated_function(fn, args, kw) ==
    IF kw THEN PlainCall(fn, args, FALSE)
    ELSE Ret(PromiseV(IF Len(args) > 0 THEN args[1] ELSE NoneV))

\* A call of a handler object as the chain makes it.
Call(fn, args, kw) ==
    IF fn \in Decorated THEN decorated_function(fn, args, kw)
    ELSE PlainCall(fn, args, kw)

ChainItem(expected, on_match, otherwise) ==
    [expected |-> expected, on_match |-> on_match, otherwise |-> otherwise]
FunctionCall(fn, arg) == [fn |-> fn, args |-> <<arg>>]
\* The entry calls a Promise is made for: wait_one(0), wait_one(3), a function
\* that raises and a function that never returns.
FirstCalls ==
    {FunctionCall("wait_one", IntV(0)), FunctionCall("wait_one", IntV(3)),
     FunctionCall("boom", IntV(0)), FunctionCall("hang", IntV(0))}
\* first_call of a _Promise object that does not exist yet.
NoCall == [fn |-> "", args |-> <<>>]

(* ----------------------------------------------------------------- state *)
VARIABLES
    first_call,   \* first_call[p]: the Deferred Call of promise p
    call_chain,   \* call_chain[p]: the sequence of ChainItems
    _thread,      \* _thread[p]: 0 (None) or the id of a Thread
    threads,      \* the Thread objects created so far, by id
    pc,           \* pc[c]: where calling context c is
    frame,        \* frame[c]: the locals of c's running call
    ncalls,       \* ncalls[c]: go()/wait() calls c has started
    calls,        \* instrumentation: every call of an entry or a handler
    lastRet,      \* instrumentation: what c's latest on()/go() returned
    returned,     \* instrumentation: returned[c], what c's wait()s returned
    published     \* instrumentation: every put on a result queue

vars == <<first_call, call_chain, _thread, threads, pc, frame, ncalls,
          calls, lastRet, returned, published>>

NoFrame == [self |-> 0, api |-> "", t |-> 0, result |-> NoneV]

\* threading.Thread(target=self._wait) with its result_queue = Queue().
NewThread(p) ==
    [self |-> p, pc |-> "init", queue |-> <<>>, result |-> NoneV, idx |-> 0]

ThreadsOf(p) == {t \in 1..Len(threads) : threads[t].self = p}
\* The _Promise objects that exist.
Live == {p \in Promises : first_call[p] # NoCall}
Finished(t) == threads[t].pc \in {"done", "crashed"}

\* _Promise.__init__ after decorated_function built the FunctionCall.
Init ==
    /\ first_call \in {f \in [Promises -> FirstCalls \cup {NoCall}] :
                         f[1] # NoCall /\ \A p \in Promises \ {1} : f[p] = NoCall}
    /\ call_chain = [p \in Promises |-> <<>>]
    /\ _thread = [p \in Promises |-> 0]
    /\ threads = <<>>
    /\ pc = [c \in Ctx |-> "idle"]
    /\ frame = [c \in Ctx |-> NoFrame]
    /\ ncalls = [c \in Ctx |-> 0]
    /\ calls = <<>>
    /\ lastRet = [c \in Ctx |-> [api |-> "", val |-> 0, args |-> <<>>]]
    /\ returned = [c \in Ctx |-> <<>>]
    /\ published = <<>>

(* ------------------------------------------------- promise.decorated_function *)
\* The call of a decorated function that runs the wrapped function at once
\* and still returns a Promise.
promise_call_eager(c, p, fn, arg) ==
    /\ pc[c] = "idle"
    /\ first_call[p] = NoCall
    /\ first_call' = [first_call EXCEPT ![p] = FunctionCall(fn, arg)]
    /\ calls' = Append(calls, [t |-> 0, link |-> 0, role |-> "entry", fn |-> fn,
                               args |-> <<arg>>, kw |-> FALSE,
                               out |-> PlainCall(fn, <<arg>>, FALSE)])
    /\ lastRet' = [lastRet EXCEPT ![c] = [api |-> "promise", val |-> p, args |-> <<fn, arg>>]]
    /\ UNCHANGED <<call_chain, _thread, threads, pc, frame, ncalls, returned, published>>

\* Lines 171-189 and 20-31: a calling context calls the decorated function fn
\* with one argument and no bypass marker; p is the new _Promise object.
promise_call(c, p, fn, arg) ==
    /\ pc[c] = "idle"
    /\ first_call[p] = NoCall
    /\ fn \in Decorated
    /\ decorated_function(fn, <<arg>>, FALSE) = Ret(PromiseV(arg))
    /\ first_call' = [first_call EXCEPT ![p] = FunctionCall(fn, arg)]
    /\ lastRet' = [lastRet EXCEPT ![c] = [api |-> "promise", val |-> p, args |-> <<fn, arg>>]]
    /\ UNCHANGED <<call_chain, _thread, threads, pc, frame, ncalls, calls, returned, published>>

(* ------------------------------------------------------------ _Promise.on *)
\* on() with the link put in front of the chain instead of at its end.
on_prepend(c, p, expected, on_match, otherwise) ==
    /\ pc[c] = "idle"
    /\ Len(call_chain[p]) < MaxChain
    /\ call_chain' = [call_chain EXCEPT ![p] =
           <<ChainItem(expected, on_match,
                       IF otherwise = "None" THEN "raise_value_error" ELSE otherwise)>> \o @]
    /\ lastRet' = [lastRet EXCEPT ![c] = [api |-> "on", val |-> p,
                                             args |-> <<expected, on_match, otherwise>>]]
    /\ UNCHANGED <<first_call, _thread, threads, pc, frame, ncalls, calls, returned, published>>

\* on() of a class whose call_chain is one list shared by every _Promise.
on_shared_chain(c, p, expected, on_match, otherwise) ==
    /\ pc[c] = "idle"
    /\ Len(call_chain[p]) < MaxChain
    /\ call_chain' = [q \in Promises |-> Append(call_chain[p],
           ChainItem(expected, on_match,
                     IF otherwise = "None" THEN "raise_value_error" ELSE otherwise))]
    /\ lastRet' = [lastRet EXCEPT ![c] = [api |-> "on", val |-> p,
                                             args |-> <<expected, on_match, otherwise>>]]
    /\ UNCHANGED <<first_call, _thread, threads, pc, frame, ncalls, calls, returned, published>>

\* on(expected, on_match, otherwise): lines 55-59.
on(c, p, expected, on_match, otherwise) ==
    /\ pc[c] = "idle"
    /\ Len(call_chain[p]) < MaxChain
    /\ call_chain' = [call_chain EXCEPT ![p] = Append(@,
           ChainItem(expected, on_match,
                     IF otherwise = "None" THEN "raise_value_error" ELSE otherwise))]
    /\ lastRet' = [lastRet EXCEPT ![c] = [api |-> "on", val |-> p,
                                             args |-> <<expected, on_match, otherwise>>]]
    /\ UNCHANGED <<first_call, _thread, threads, pc, frame, ncalls, calls, returned, published>>

(* ------------------------------------------------------------ _Promise.go *)
\* A calling context enters go().
go_call(c, p) ==
    /\ pc[c] = "idle"
    /\ ncalls[c] < MaxCalls
    /\ ncalls' = [ncalls EXCEPT ![c] = @ + 1]
    /\ pc' = [pc EXCEPT ![c] = "go_check"]
    /\ frame' = [frame EXCEPT ![c] = [NoFrame EXCEPT !.self = p, !.api = "go"]]
    /\ UNCHANGED <<first_call, call_chain, _thread, threads, calls, lastRet, returned, published>>

\* go() without the test of line 69: every call makes a new Thread.
go_check_always(c) ==
    /\ pc[c] = "go_check"
    /\ threads' = Append(threads, NewThread(frame[c].self))
    /\ frame' = [frame EXCEPT ![c].t = Len(threads) + 1]
    /\ pc' = [pc EXCEPT ![c] = "go_start"]
    /\ UNCHANGED <<first_call, call_chain, _thread, ncalls, calls, lastRet, returned, published>>

\* Lines 69-71: the test of self._thread, and the new Thread and Queue.
go_check(c) ==
    /\ pc[c] = "go_check"
    /\ IF _thread[frame[c].self] = 0
       THEN /\ threads' = Append(threads, NewThread(frame[c].self))
            /\ frame' = [frame EXCEPT ![c].t = Len(threads) + 1]
            /\ pc' = [pc EXCEPT ![c] = "go_start"]
       ELSE /\ pc' = [pc EXCEPT ![c] = "go_return"]
            /\ UNCHANGED <<threads, frame>>
    /\ UNCHANGED <<first_call, call_chain, _thread, ncalls, calls, lastRet, returned, published>>

\* Line 72: _thread.start().
go_start(c) ==
    /\ pc[c] = "go_start"
    /\ threads' = [threads EXCEPT ![frame[c].t].pc = "entry"]
    /\ pc' = [pc EXCEPT ![c] = "go_store"]
    /\ UNCHANGED <<first_call, call_chain, _thread, frame, ncalls, calls, lastRet, returned, published>>

\* Line 73: self._thread = _thread.
go_store(c) ==
    /\ pc[c] = "go_store"
    /\ _thread' = [_thread EXCEPT ![frame[c].self] = frame[c].t]
    /\ pc' = [pc EXCEPT ![c] = "go_return"]
    /\ UNCHANGED <<first_call, call_chain, threads, frame, ncalls, calls, lastRet, returned, published>>

\* go() that joins the thread before it returns.
go_return_joins(c) ==
    /\ pc[c] = "go_return"
    /\ Finished(_thread[frame[c].self])
    /\ IF frame[c].api = "go"
       THEN /\ pc' = [pc EXCEPT ![c] = "idle"]
            /\ lastRet' = [lastRet EXCEPT ![c] = [api |-> "go", val |-> frame[c].self, args |-> <<>>]]
            /\ frame' = [frame EXCEPT ![c] = NoFrame]
       ELSE /\ pc' = [pc EXCEPT ![c] = "wait_read"]
            /\ UNCHANGED <<lastRet, frame>>
    /\ UNCHANGED <<first_call, call_chain, _thread, threads, ncalls, calls, returned, published>>

\* Line 74: return self, to the caller or to wait() (line 91).
go_return(c) ==
    /\ pc[c] = "go_return"
    /\ IF frame[c].api = "go"
       THEN /\ pc' = [pc EXCEPT ![c] = "idle"]
            /\ lastRet' = [lastRet EXCEPT ![c] = [api |-> "go", val |-> frame[c].self, args |-> <<>>]]
            /\ frame' = [frame EXCEPT ![c] = NoFrame]
       ELSE /\ pc' = [pc EXCEPT ![c] = "wait_read"]
            /\ UNCHANGED <<lastRet, frame>>
    /\ UNCHANGED <<first_call, call_chain, _thread, threads, ncalls, calls, returned, published>>

go(c) == go_check(c) \/ go_start(c) \/ go_store(c) \/ go_return(c)

(* ---------------------------------------------------------- _Promise.wait *)
\* A calling context enters wait().
wait_call(c, p) ==
    /\ pc[c] = "idle"
    /\ ncalls[c] < MaxCalls
    /\ ncalls' = [ncalls EXCEPT ![c] = @ + 1]
    /\ pc' = [pc EXCEPT ![c] = "wait_check"]
    /\ frame' = [frame EXCEPT ![c] = [NoFrame EXCEPT !.self = p, !.api = "wait"]]
    /\ UNCHANGED <<first_call, call_chain, _thread, threads, calls, lastRet, returned, published>>

\* Lines 87-91: `if not self._thread: self.go()`.
wait_check(c) ==
    /\ pc[c] = "wait_check"
    /\ pc' = [pc EXCEPT ![c] = IF _thread[frame[c].self] = 0 THEN "go_check" ELSE "wait_read"]
    /\ UNCHANGED <<first_call, call_chain, _thread, threads, frame, ncalls, calls,
                   lastRet, returned, published>>

\* Line 92, the read of self._thread.result_queue.
wait_read(c) ==
    /\ pc[c] = "wait_read"
    /\ frame' = [frame EXCEPT ![c].t = _thread[frame[c].self]]
    /\ pc' = [pc EXCEPT ![c] = "wait_get"]
    /\ UNCHANGED <<first_call, call_chain, _thread, threads, ncalls, calls,
                   lastRet, returned, published>>

\* Queue.get() that reads the head of the queue and leaves it there.
wait_get_peek(c) ==
    /\ pc[c] = "wait_get"
    /\ threads[frame[c].t].queue # <<>>
    /\ frame' = [frame EXCEPT ![c].result = Head(threads[frame[c].t].queue)]
    /\ pc' = [pc EXCEPT ![c] = "wait_join"]
    /\ UNCHANGED <<first_call, call_chain, _thread, threads, ncalls, calls, lastRet,
                   returned, published>>

\* Line 92, Queue.get(): blocks while the queue is empty.
wait_get(c) ==
    /\ pc[c] = "wait_get"
    /\ threads[frame[c].t].queue # <<>>
    /\ frame' = [frame EXCEPT ![c].result = Head(threads[frame[c].t].queue)]
    /\ threads' = [threads EXCEPT ![frame[c].t].queue = Tail(@)]
    /\ pc' = [pc EXCEPT ![c] = "wait_join"]
    /\ UNCHANGED <<first_call, call_chain, _thread, ncalls, calls, lastRet, returned, published>>

\* Line 95, the read of self._thread for join().
wait_join(c) ==
    /\ pc[c] = "wait_join"
    /\ frame' = [frame EXCEPT ![c].t = _thread[frame[c].self]]
    /\ pc' = [pc EXCEPT ![c] = "wait_joining"]
    /\ UNCHANGED <<first_call, call_chain, _thread, threads, ncalls, calls,
                   lastRet, returned, published>>

\* Lines 95-98: Thread.join() blocks until the thread has ended, then
\* `return result`.
wait_return(c) ==
    /\ pc[c] = "wait_joining"
    /\ Finished(frame[c].t)
    /\ returned' = [returned EXCEPT ![c] = Append(@, frame[c].result)]
    /\ pc' = [pc EXCEPT ![c] = "idle"]
    /\ frame' = [frame EXCEPT ![c] = NoFrame]
    /\ UNCHANGED <<first_call, call_chain, _thread, threads, ncalls, calls, lastRet, published>>

wait(c) == wait_check(c) \/ wait_read(c) \/ wait_get(c) \/ wait_join(c) \/ wait_return(c)

(* --------------------------------------------------------- _Promise._wait *)
CallRec(t, link, role, fn, args, kw, out) ==
    [t |-> t, link |-> link, role |-> role, fn |-> fn, args |-> args, kw |-> kw, out |-> out]

\* _wait that does not keep what the first call returns.
first_call_step_drops(t) ==
    LET p == threads[t].self
        fc == first_call[p]
        out == PlainCall(fc.fn, fc.args, FALSE)
    IN /\ threads[t].pc = "entry"
       /\ calls' = Append(calls, CallRec(t, 0, "entry", fc.fn, fc.args, FALSE, out))
       /\ threads' = [threads EXCEPT ![t] =
              CASE out.kind = "ret" -> [@ EXCEPT !.pc = "loop"]
                [] out.kind = "raise" -> [@ EXCEPT !.pc = "crashed"]
                [] OTHER -> [@ EXCEPT !.pc = "hung"]]
       /\ UNCHANGED <<first_call, call_chain, _thread, pc, frame, ncalls, lastRet,
                      returned, published>>

\* Lines 122-123: the first call, outside every try block.  A raised
\* exception ends the thread; a call that never returns leaves it running.
first_call_step(t) ==
    LET p == threads[t].self
        fc == first_call[p]
        out == PlainCall(fc.fn, fc.args, FALSE)
    IN /\ threads[t].pc = "entry"
       /\ calls' = Append(calls, CallRec(t, 0, "entry", fc.fn, fc.args, FALSE, out))
       /\ threads' = [threads EXCEPT ![t] =
              CASE out.kind = "ret" -> [@ EXCEPT !.result = out.val, !.pc = "loop"]
                [] out.kind = "raise" -> [@ EXCEPT !.pc = "crashed"]
                [] OTHER -> [@ EXCEPT !.pc = "hung"]]
       /\ UNCHANGED <<first_call, call_chain, _thread, pc, frame, ncalls, lastRet,
                      returned, published>>

\* The matching branch that drops the handler's return value.
on_match_branch_keeps_result(item, result) ==
    LET o1 == Call(item.on_match, <<result>>, TRUE)
        o2 == Call(item.on_match, <<result>>, FALSE)
        c1 == [role |-> "on_match", fn |-> item.on_match, args |-> <<result>>, kw |-> TRUE, out |-> o1]
        c2 == [role |-> "on_match", fn |-> item.on_match, args |-> <<result>>, kw |-> FALSE, out |-> o2]
    IN CASE o1.kind = "ret" -> [result |-> result, brk |-> FALSE, hung |-> FALSE, log |-> <<c1>>]
         [] o1.kind = "raise" /\ ~HasKwMessage(o1.val) ->
               [result |-> o1.val, brk |-> TRUE, hung |-> FALSE, log |-> <<c1>>]
         [] o1.kind = "raise" /\ HasKwMessage(o1.val) /\ o2.kind = "ret" ->
               [result |-> result, brk |-> FALSE, hung |-> FALSE, log |-> <<c1, c2>>]
         [] OTHER -> [result |-> o2.val, brk |-> TRUE, hung |-> FALSE, log |-> <<c1, c2>>]

\* The matching branch without the `break` after a handler fault.
on_match_branch_no_break(item, result) ==
    LET o1 == Call(item.on_match, <<result>>, TRUE)
        o2 == Call(item.on_match, <<result>>, FALSE)
        c1 == [role |-> "on_match", fn |-> item.on_match, args |-> <<result>>, kw |-> TRUE, out |-> o1]
        c2 == [role |-> "on_match", fn |-> item.on_match, args |-> <<result>>, kw |-> FALSE, out |-> o2]
    IN CASE o1.kind = "ret" -> [result |-> o1.val, brk |-> FALSE, hung |-> FALSE, log |-> <<c1>>]
         [] o1.kind = "raise" /\ ~HasKwMessage(o1.val) ->
               [result |-> o1.val, brk |-> FALSE, hung |-> FALSE, log |-> <<c1>>]
         [] OTHER -> [result |-> o2.val, brk |-> FALSE, hung |-> FALSE, log |-> <<c1, c2>>]

\* The matching branch that calls the handler again after any exception.
on_match_branch_retries_any(item, result) ==
    LET o1 == Call(item.on_match, <<result>>, TRUE)
        o2 == Call(item.on_match, <<result>>, FALSE)
        c1 == [role |-> "on_match", fn |-> item.on_match, args |-> <<result>>, kw |-> TRUE, out |-> o1]
        c2 == [role |-> "on_match", fn |-> item.on_match, args |-> <<result>>, kw |-> FALSE, out |-> o2]
    IN CASE o1.kind = "ret" -> [result |-> o1.val, brk |-> FALSE, hung |-> FALSE, log |-> <<c1>>]
         [] o1.kind = "hang" -> [result |-> result, brk |-> FALSE, hung |-> TRUE, log |-> <<c1>>]
         [] o1.kind = "raise" /\ o2.kind = "ret" ->
               [result |-> o2.val, brk |-> FALSE, hung |-> FALSE, log |-> <<c1, c2>>]
         [] o1.kind = "raise" /\ o2.kind = "hang" ->
               [result |-> result, brk |-> FALSE, hung |-> TRUE, log |-> <<c1, c2>>]
         [] OTHER -> [result |-> o2.val, brk |-> TRUE, hung |-> FALSE, log |-> <<c1, c2>>]

\* Lines 128-146: the link matches.  The outcome is the new result, whether
\* the loop breaks, and the calls made.
on_match_branch(item, result) ==
    LET o1 == Call(item.on_match, <<result>>, TRUE)
        o2 == Call(item.on_match, <<result>>, FALSE)
        c1 == [role |-> "on_match", fn |-> item.on_match, args |-> <<result>>, kw |-> TRUE, out |-> o1]
        c2 == [role |-> "on_match", fn |-> item.on_match, args |-> <<result>>, kw |-> FALSE, out |-> o2]
    IN CASE o1.kind = "ret" -> [result |-> o1.val, brk |-> FALSE, hung |-> FALSE, log |-> <<c1>>]
         [] o1.kind = "hang" -> [result |-> result, brk |-> FALSE, hung |-> TRUE, log |-> <<c1>>]
         [] o1.kind = "raise" /\ ~HasKwMessage(o1.val) ->
               [result |-> o1.val, brk |-> TRUE, hung |-> FALSE, log |-> <<c1>>]
         [] o1.kind = "raise" /\ HasKwMessage(o1.val) /\ o2.kind = "ret" ->
               [result |-> o2.val, brk |-> FALSE, hung |-> FALSE, log |-> <<c1, c2>>]
         [] o1.kind = "raise" /\ HasKwMessage(o1.val) /\ o2.kind = "hang" ->
               [result |-> result, brk |-> FALSE, hung |-> TRUE, log |-> <<c1, c2>>]
         [] OTHER -> [result |-> o2.val, brk |-> TRUE, hung |-> FALSE, log |-> <<c1, c2>>]

\* The mismatch branch without its `break`.
otherwise_branch_no_break(item, result) ==
    LET o == Call(item.otherwise, <<result, item.expected>>, FALSE)
        c1 == [role |-> "otherwise", fn |-> item.otherwise, args |-> <<result, item.expected>>,
               kw |-> FALSE, out |-> o]
    IN [result |-> o.val, brk |-> FALSE, hung |-> FALSE, log |-> <<c1>>]

\* The mismatch branch that swallows what the otherwise handler raises and
\* keeps the unmatched result.
otherwise_branch_swallow(item, result) ==
    LET o == Call(item.otherwise, <<result, item.expected>>, FALSE)
        c1 == [role |-> "otherwise", fn |-> item.otherwise, args |-> <<result, item.expected>>,
               kw |-> FALSE, out |-> o]
    IN [result |-> IF o.kind = "ret" THEN o.val ELSE result,
        brk |-> TRUE, hung |-> FALSE, log |-> <<c1>>]

\* Lines 147-159: the link does not match; the loop always breaks.
otherwise_branch(item, result) ==
    LET o == Call(item.otherwise, <<result, item.expected>>, FALSE)
        c1 == [role |-> "otherwise", fn |-> item.otherwise, args |-> <<result, item.expected>>,
               kw |-> FALSE, out |-> o]
    IN IF o.kind = "hang"
       THEN [result |-> result, brk |-> FALSE, hung |-> TRUE, log |-> <<c1>>]
       ELSE [result |-> o.val, brk |-> TRUE, hung |-> FALSE, log |-> <<c1>>]

\* Lines 127-159: one iteration of the loop over self.call_chain.
EvalLink(item, result) ==
    IF result = item.expected THEN on_match_branch(item, result)
    ELSE otherwise_branch(item, result)

\* Line 126 and the loop body: the list iterator reads the list as it is now.
loop_step(t) ==
    LET p == threads[t].self
        i == threads[t].idx + 1
        ev == EvalLink(call_chain[p][i], threads[t].result)
    IN /\ threads[t].pc = "loop"
       /\ IF i > Len(call_chain[p])
          THEN /\ threads' = [threads EXCEPT ![t].pc = "return"]
               /\ UNCHANGED calls
          ELSE /\ threads' = [threads EXCEPT ![t] =
                      [@ EXCEPT !.result = ev.result, !.idx = i,
                                !.pc = IF ev.hung THEN "hung"
                                       ELSE IF ev.brk THEN "return" ELSE "loop"]]
               /\ calls' = calls \o [k \in 1..Len(ev.log) |->
                      CallRec(t, i, ev.log[k].role, ev.log[k].fn, ev.log[k].args,
                              ev.log[k].kw, ev.log[k].out)]
       /\ UNCHANGED <<first_call, call_chain, _thread, pc, frame, ncalls, lastRet,
                      returned, published>>

\* Lines 160 and 110: self._thread.result_queue.put(return_value).  While
\* self._thread is still None the attribute access raises and the thread
\* ends with nothing put.
_return(t) ==
    LET p == threads[t].self
        h == _thread[p]
    IN /\ threads[t].pc = "return"
       /\ IF h = 0
          THEN /\ threads' = [threads EXCEPT ![t].pc = "crashed"]
               /\ UNCHANGED published
          ELSE /\ threads' = [threads EXCEPT ![h].queue = Append(@, threads[t].result),
                                             ![t].pc = "done"]
               /\ published' = Append(published,
                      [by |-> t, to |-> h, val |-> threads[t].result])
       /\ UNCHANGED <<first_call, call_chain, _thread, pc, frame, ncalls, calls,
                      lastRet, returned>>

_wait(t) == first_call_step(t) \/ loop_step(t) \/ _return(t)

(* --------------------------------------------------------- specifications *)
\* What one calling context may do next.
Caller(c) ==
    \/ \E p \in Live, e \in ExpectedVals, m \in OnMatchFns, o \in OtherwiseFns :
          on(c, p, e, m, o)
    \/ \E p \in Live : go_call(c, p)
    \/ \E p \in Live : wait_call(c, p)
    \/ go(c)
    \/ wait(c)

Background == \E t \in 1..Len(threads) : _wait(t)

\* One caller (the main thread) and the threads its calls start.
Next == Caller(1) \/ Background

Spec == Init /\ [][Next]_vars

\* The same program under fair scheduling: a call that can take its next
\* step takes it, and so does every started thread.
FairSpec ==
    /\ Init /\ [][Next]_vars
    /\ WF_vars(go(1)) /\ WF_vars(wait(1))
    /\ WF_vars(Background)

\* Two calling contexts that call go() and wait() on the same Promise.  The
\* main thread appends at most one link, as in example.py (add_three, fail),
\* before any call of go() or wait().
ConcCaller(c) ==
    \/ \E p \in Live, e \in ExpectedVals :
          /\ c = 1
          /\ \A d \in Ctx : ncalls[d] = 0
          /\ call_chain[p] = <<>>
          /\ on(c, p, e, "add_three", "fail")
    \/ \E p \in Live : go_call(c, p)
    \/ \E p \in Live : wait_call(c, p)
    \/ go(c)
    \/ wait(c)

ConcNext == (\E c \in Ctx : ConcCaller(c)) \/ Background

ConcSpec == Init /\ [][ConcNext]_vars

\* One caller whose handlers are a plain function (add_three), a builtin
\* (abs), a function that raises from a call in its own body (kw_boom), a
\* function that never returns (hang) and a promise-decorated function of
\* two parameters (report).
OnMatchFns2 == {"add_three", "abs", "kw_boom", "hang"}
OtherwiseFns2 == {"report", "kw_boom"}

HandlerCaller(c) ==
    \/ \E p \in Live, e \in ExpectedVals, m \in OnMatchFns2, o \in OtherwiseFns2 :
          on(c, p, e, m, o)
    \/ \E p \in Live : go_call(c, p)
    \/ \E p \in Live : wait_call(c, p)
    \/ go(c)
    \/ wait(c)

HandlerNext == HandlerCaller(1) \/ Background

HandlerSpec == Init /\ [][HandlerNext]_vars

\* Two Promises made by calling the same decorated function twice: context c
\* calls wait_one(0) or wait_one(3), appends at most one link to the Promise
\* p = c it got,
\* and then calls go() and wait() on it, while the other context does the
\* same with its own Promise.
TwoInit ==
    /\ first_call = [p \in Promises |-> NoCall]
    /\ call_chain = [p \in Promises |-> <<>>]
    /\ _thread = [p \in Promises |-> 0]
    /\ threads = <<>>
    /\ pc = [c \in Ctx |-> "idle"]
    /\ frame = [c \in Ctx |-> NoFrame]
    /\ ncalls = [c \in Ctx |-> 0]
    /\ calls = <<>>
    /\ lastRet = [c \in Ctx |-> [api |-> "", val |-> 0, args |-> <<>>]]
    /\ returned = [c \in Ctx |-> <<>>]
    /\ published = <<>>

TwoCaller(c) ==
    \/ \E x \in {IntV(0), IntV(3)} :
          /\ x = IF c = 1 THEN IntV(0) ELSE IntV(3)
          /\ promise_call(c, c, "wait_one", x)
    \/ \E e \in ExpectedVals :
          /\ c \in Live
          /\ ncalls[c] = 0
          /\ call_chain[c] = <<>>
          /\ on(c, c, e, "add_three", "fail")
    \/ (c \in Live /\ go_call(c, c))
    \/ (c \in Live /\ wait_call(c, c))
    \/ go(c)
    \/ wait(c)

TwoNext == (\E c \in Ctx : TwoCaller(c)) \/ Background

TwoSpec == TwoInit /\ [][TwoNext]_vars

(* ------------------------------------------------- reading the call log *)
Threads == 1..Len(threads)
EntryCalls(t) == {k \in DOMAIN calls : calls[k].t = t /\ calls[k].role = "entry"}
LinkCalls(t, i) == {k \in DOMAIN calls : calls[k].t = t /\ calls[k].link = i}
\* The calls of link i's on_match handler that returned a value.
RetCalls(t, i) ==
    {k \in LinkCalls(t, i) : calls[k].role = "on_match" /\ calls[k].out.kind = "ret"}
\* The return value of the entry call, and of link i's on_match handler.
EntryRet(t) ==
    IF EntryCalls(t) = {} THEN NoneV ELSE calls[CHOOSE k \in EntryCalls(t) : TRUE].out.val
HandlerRet(t, i) ==
    IF RetCalls(t, i) = {} THEN NoneV ELSE calls[CHOOSE k \in RetCalls(t, i) : TRUE].out.val
\* The current result when link i is reached.
Cur(t, i) == IF i = 1 THEN EntryRet(t) ELSE HandlerRet(t, i - 1)
\* No handler of a link after link i has been invoked.
NoLaterLink(t, i) == \A k \in DOMAIN calls : calls[k].t = t => calls[k].link <= i
ChainOf(t) == call_chain[threads[t].self]
\* The main thread's first wait() has returned.
WaitReturned == returned[1] # <<>>

(* ------------------------------------------------------------------ claims *)
\* C1: after two or more go() calls made one after another by one caller
\* (and no wait), once the unit has ended, exactly one Thread has been
\* created and exactly one terminal result has been put on the queue.  It is
\* stated here for the Promises whose entry call returns.
C1_GoTwiceOneUnitOneResult ==
    (/\ ncalls[1] >= 2 /\ pc[1] = "idle" /\ returned[1] = <<>>
     /\ \A t \in Threads : Finished(t) /\ EntryCalls(t) # {}
     /\ \A k \in DOMAIN calls : calls[k].role = "entry" => calls[k].out.kind = "ret")
    => (Len(threads) = 1 /\ Len(published) = 1)

\* C2: when the current result equals expected at each of the N >= 1 links
\* and each on_match handler returns, wait() returns the N-th handler's
\* return value, the first handler is called with the entry call's return
\* value and each later handler with the return value of the one before it.
C2_MatchingChain ==
    \A t \in Threads :
       (/\ WaitReturned
        /\ Len(ChainOf(t)) >= 1
        /\ EntryCalls(t) # {}
        /\ \A i \in 1..Len(ChainOf(t)) :
              RetCalls(t, i) # {} /\ Cur(t, i) = ChainOf(t)[i].expected)
       => /\ returned[1][1] = HandlerRet(t, Len(ChainOf(t)))
          /\ \A k \in DOMAIN calls :
                (calls[k].t = t /\ calls[k].link >= 1)
                => /\ calls[k].role = "on_match"
                   /\ calls[k].fn = ChainOf(t)[calls[k].link].on_match
                   /\ calls[k].args = <<Cur(t, calls[k].link)>>

C2_Witness ==
    /\ WaitReturned
    /\ Len(call_chain[1]) = 2
    /\ call_chain[1][1].on_match = "add_three"
    /\ call_chain[1][2].on_match = "add_three"
    /\ RetCalls(1, 1) # {} /\ RetCalls(1, 2) # {}
    /\ returned[1][1] = IntV(6)

\* C3: when the current result first differs from expected at link k, the
\* otherwise handler of link k is called with (current result, expected),
\* no handler of a later link is ever invoked, and wait() returns the value
\* that otherwise call returned.
C3_MismatchStops ==
    \A t \in Threads : \A k \in DOMAIN calls :
       (calls[k].t = t /\ calls[k].role = "otherwise")
       => LET i == calls[k].link
          IN /\ Cur(t, i) # ChainOf(t)[i].expected
             /\ calls[k].fn = ChainOf(t)[i].otherwise
             /\ calls[k].args = <<Cur(t, i), ChainOf(t)[i].expected>>
             /\ \A j \in 1..(i - 1) : RetCalls(t, j) # {}
             /\ NoLaterLink(t, i)
             /\ (WaitReturned /\ calls[k].out.kind = "ret")
                => returned[1][1] = calls[k].out.val

C3_Witness ==
    /\ WaitReturned
    /\ Len(call_chain[1]) = 2
    /\ \E k \in DOMAIN calls :
          /\ calls[k].role = "otherwise" /\ calls[k].link = 1 /\ calls[k].fn = "fail"
          /\ returned[1][1] = TupleV(IntV(3), IntV(0))

\* C4: a link appended with no otherwise handler gets the handler that
\* raises the mismatch error; when the current result differs from that
\* link's expected value, wait() returns the mismatch error object as a
\* value, not the unmatched current result, and no later link is invoked.
C4_DefaultOtherwise ==
    /\ (/\ lastRet[1].api = "on" /\ lastRet[1].args[3] = "None")
       => call_chain[1][Len(call_chain[1])].otherwise = "raise_value_error"
    /\ \A t \in Threads : \A k \in DOMAIN calls :
          (/\ calls[k].t = t /\ calls[k].role = "otherwise"
           /\ ChainOf(t)[calls[k].link].otherwise = "raise_value_error")
          => LET i == calls[k].link
                 err == raise_value_error_exc(Cur(t, i), ChainOf(t)[i].expected)
             IN /\ calls[k].out = Raise(err)
                /\ NoLaterLink(t, i)
                /\ threads[t].result = err
                /\ WaitReturned => (returned[1][1] = err /\ returned[1][1] # Cur(t, i))

C4_Witness ==
    /\ WaitReturned
    /\ Len(call_chain[1]) = 2
    /\ call_chain[1][1].otherwise = "raise_value_error"
    /\ returned[1][1] = ErrV("ValueError", 3, 0)

\* A call record of an on_match handler that ended in an error the code does
\* not retry: any error of the retry, or a first error whose message is not
\* the rejection of the bypass keyword.
IsFault(k) ==
    /\ calls[k].role = "on_match"
    /\ calls[k].out.kind = "raise"
    /\ (~calls[k].kw \/ ~HasKwMessage(calls[k].out.val))

\* C5: when the on_match handler of a matching link raises, the raised error
\* object is the terminal result wait() returns and no handler of a later
\* link is invoked.
C5_OnMatchFault ==
    \A t \in Threads : \A k \in DOMAIN calls :
       (calls[k].t = t /\ IsFault(k))
       => /\ threads[t].result = calls[k].out.val
          /\ threads[t].pc \in {"return", "done", "crashed"}
          /\ NoLaterLink(t, calls[k].link)
          /\ WaitReturned => returned[1][1] = calls[k].out.val

C5_Witness ==
    /\ WaitReturned
    /\ Len(call_chain[1]) = 2
    /\ call_chain[1][1].on_match = "boom"
    /\ returned[1][1] = BoomError

\* C6: the background thread never ends with an uncaught exception: a fault
\* raised by the entry call or a handler becomes the published result.
C6_NoUncaughtException ==
    \A t \in Threads :
       /\ threads[t].pc # "crashed"
       /\ threads[t].pc = "done" => \E k \in DOMAIN published : published[k].by = t

\* The main thread is inside its first wait() on a Promise whose entry call
\* returns (every handler of the model returns or raises).
InFirstWait ==
    /\ frame[1].api = "wait"
    /\ returned[1] = <<>>
    /\ first_call[frame[1].self].fn = "wait_one"

\* C7: under fair scheduling the first wait() eventually returns the
\* terminal result, whatever the interleaving of the thread with go().
C7_FirstWaitReturns == InFirstWait ~> WaitReturned

\* C8: once the first wait() has returned, no second wait() returns: every
\* result queue stays empty and no further Thread is created.
C8_SecondWaitBlocks ==
    WaitReturned
    => /\ Len(returned[1]) = 1
       /\ Len(threads) = 1
       /\ \A t \in Threads : threads[t].queue = <<>>
       /\ Len(published) = 1

C8_Witness ==
    /\ WaitReturned
    /\ pc[1] = "wait_get"
    /\ ncalls[1] = 2

\* C9: at most one Thread is ever created for a Promise, also when two
\* calling contexts interleave their go() and wait().
C9_AtMostOneUnit == \A p \in Promises : Cardinality(ThreadsOf(p)) <= 1

\* The step is a call of on() by the main thread.
IsOnStep ==
    \/ call_chain' # call_chain
    \/ (lastRet'[1] # lastRet[1] /\ lastRet'[1].api = "on")

\* C10: on(expected, on_match, otherwise) appends exactly one link to the end
\* of the chain and returns the same Promise; it creates no Thread, makes no
\* call of the entry or of a handler, and leaves the earlier links as they are.
C10_OnAppendsOnly ==
    [][IsOnStep =>
         \E p \in Promises :
            /\ lastRet'[1].api = "on" /\ lastRet'[1].val = p
            /\ Len(call_chain'[p]) = Len(call_chain[p]) + 1
            /\ SubSeq(call_chain'[p], 1, Len(call_chain[p])) = call_chain[p]
            /\ call_chain'[p][Len(call_chain'[p])].expected = lastRet'[1].args[1]
            /\ call_chain'[p][Len(call_chain'[p])].on_match = lastRet'[1].args[2]
            /\ call_chain'[p][Len(call_chain'[p])].otherwise
                  \in {lastRet'[1].args[3], "raise_value_error"}
            /\ \A q \in Promises \ {p} : call_chain'[q] = call_chain[q]
            /\ UNCHANGED <<first_call, _thread, threads, pc, frame, ncalls, calls,
                           returned, published>>]_vars

C10_Witness ==
    /\ lastRet[1].api = "on"
    /\ Len(call_chain[1]) = 2
    /\ call_chain[1][1] # call_chain[1][2]
    /\ threads = <<>> /\ calls = <<>>

\* C11 (under TwoSpec, where context p is the one caller of Promise p):
\* calling the decorated function returns a new Promise with an empty chain
\* and no Thread, and the wrapped function is invoked only by a Thread of a
\* Promise on which go() or wait() has been called.
C11_NothingRunsBeforeStart ==
    /\ \A k \in DOMAIN calls :
          /\ calls[k].t \in Threads
          /\ ncalls[threads[calls[k].t].self] >= 1
    /\ \A p \in Live :
          ncalls[p] = 0
          => /\ ThreadsOf(p) = {} /\ _thread[p] = 0
             /\ lastRet[p].val = p
             /\ lastRet[p].api = "promise" => call_chain[p] = <<>>

C11_Witness ==
    /\ Live = {1, 2}
    /\ lastRet[1].api = "promise" /\ lastRet[1].val = 1
    /\ ncalls[1] = 0
    /\ \E k \in DOMAIN calls : calls[k].role = "entry" /\ threads[calls[k].t].self = 2

\* C12: a promise-decorated on_match handler of a matching link is called
\* once, with the bypass marker, and runs in the chain's own thread: the call
\* returns what the wrapped function returns when called without the marker,
\* that plain value (not a Promise) is the link's result, and no further
\* Thread or Promise comes into being.
C12_DecoratedOnMatchInline ==
    \A t \in Threads : \A k \in DOMAIN calls :
       (calls[k].t = t /\ calls[k].role = "on_match" /\ calls[k].fn \in Decorated)
       => LET i == calls[k].link
          IN /\ calls[k].kw
             /\ LinkCalls(t, i) = {k}
             /\ calls[k].out = PlainCall(calls[k].fn, calls[k].args, FALSE)
             /\ calls[k].out.kind = "ret"
             /\ calls[k].out.val.tag # "promise"
             /\ HandlerRet(t, i) = calls[k].out.val
             /\ (threads[t].idx = i) => threads[t].result = calls[k].out.val
             /\ Len(threads) = 1
             /\ Live = {1}

C12_Witness ==
    /\ WaitReturned
    /\ Len(call_chain[1]) = 2
    /\ call_chain[1][2].on_match = "wait_one"
    /\ call_chain[1][1].on_match = "add_three"
    /\ RetCalls(1, 2) # {}
    /\ returned[1][1] = IntV(3)

\* C13: a promise-decorated otherwise handler of a mismatching link runs in
\* line: its call returns what the wrapped function returns for (current
\* result, expected), and that plain value, not a Promise, is what wait()
\* returns.
C13_DecoratedOtherwiseInline ==
    \A t \in Threads : \A k \in DOMAIN calls :
       (calls[k].t = t /\ calls[k].role = "otherwise" /\ calls[k].fn \in Decorated)
       => /\ calls[k].out = PlainCall(calls[k].fn, calls[k].args, FALSE)
          /\ calls[k].out.val.tag # "promise"
          /\ WaitReturned => returned[1][1] = calls[k].out.val

\* C14: a context inside a go() call can always take its next step, whatever
\* the thread is doing (running, stuck in an entry call or a handler that
\* never returns, ended); the step takes nothing from a result queue, returns
\* nothing from wait(), and the last one hands the Promise back.
C14_GoNeverBlocks ==
    \A c \in Ctx :
       frame[c].api = "go"
       => ENABLED (/\ go(c)
                   /\ \A t \in Threads : threads'[t].queue = threads[t].queue
                   /\ returned' = returned
                   /\ pc'[c] = "idle" => lastRet'[c] = [api |-> "go", val |-> frame[c].self,
                                                         args |-> <<>>])

C14_Witness ==
    /\ pc[1] = "idle" /\ ncalls[1] = 2 /\ returned[1] = <<>>
    /\ lastRet[1].api = "go"
    /\ \E t \in Threads : threads[t].pc = "hung" /\ threads[t].idx = 2

\* The values put on the queues of Promise p's threads, in order.
PutsOf(p) == SelectSeq(published, LAMBDA w : threads[w.to].self = p)

\* C15: with one caller, whatever on, go and wait calls it makes, at most one
\* value is ever put on a Promise's result queue, and it is put by the
\* Promise's thread at the end of _wait: the value is the result the chain
\* evaluation ended with.
C15_OneWrite ==
    \A p \in Promises :
       /\ Len(PutsOf(p)) <= 1
       /\ \A t \in ThreadsOf(p) : Len(threads[t].queue) <= 1
       /\ \A k \in DOMAIN PutsOf(p) :
             LET w == PutsOf(p)[k]
             IN /\ threads[w.by].self = p
                /\ threads[w.by].pc = "done"
                /\ w.val = threads[w.by].result
                /\ threads[w.by].idx = 0 => w.val = EntryRet(w.by)

C15_Witness ==
    /\ Len(PutsOf(1)) = 1
    /\ ncalls[1] = 2 /\ pc[1] = "idle" /\ lastRet[1].api = "go"
    /\ Len(call_chain[1]) = 2
    /\ threads[1].idx = 2

\* The first call of an on_match handler ended because the handler does not
\* take the keyword no_promise.
KeywordRejected(k) ==
    /\ calls[k].role = "on_match" /\ calls[k].kw
    /\ calls[k].out \in {Raise(KwError), Raise(NoKwArgsError)}

\* C16: when a link matches and its on_match handler does not take the
\* keyword no_promise, the handler is called again with the current result
\* alone; what the second call returns becomes the current result and the
\* loop goes on, and what it raises becomes the final result with no later
\* link evaluated.
C16_RetryWithoutKeyword ==
    \A t \in Threads : \A k \in DOMAIN calls :
       (calls[k].t = t /\ KeywordRejected(k))
       => /\ k + 1 \in LinkCalls(t, calls[k].link)
          /\ calls[k + 1].role = "on_match" /\ ~calls[k + 1].kw
          /\ calls[k + 1].args = <<Cur(t, calls[k].link)>>
          /\ calls[k + 1].out.kind = "ret" /\ threads[t].idx = calls[k].link
                => threads[t].result = calls[k + 1].out.val
          /\ calls[k + 1].out.kind = "ret"
                => \A n \in LinkCalls(t, calls[k].link + 1) :
                      calls[n].args[1] = calls[k + 1].out.val
          /\ calls[k + 1].out.kind = "raise"
                => /\ threads[t].result = calls[k + 1].out.val
                   /\ threads[t].pc \in {"return", "done", "crashed"}
                   /\ NoLaterLink(t, calls[k].link)

\* C17: a thread whose loop found the chain empty ends with the return value
\* of the first call as its result, has called no handler, and wait() on its
\* Promise returns that value.
C17_EmptyChain ==
    \A t \in Threads :
       (threads[t].idx = 0 /\ threads[t].pc \in {"return", "done"})
       => /\ threads[t].result = EntryRet(t)
          /\ \A k \in DOMAIN calls : calls[k].t = t => calls[k].role = "entry"
          /\ \A n \in DOMAIN returned[1] : returned[1][n] = EntryRet(t)

C17_Witness ==
    /\ call_chain[1] = <<>>
    /\ WaitReturned /\ returned[1][1] = IntV(3)
    /\ Len(calls) = 1 /\ calls[1].role = "entry"

\* In TwoSpec context c holds Promise c.  The step is one of context c
\* (promise call, on, go, wait) or one of a thread of Promise c.
StepOf(c) ==
    \/ pc'[c] # pc[c] \/ lastRet'[c] # lastRet[c] \/ ncalls'[c] # ncalls[c]
    \/ first_call'[c] # first_call[c]
    \/ \E t \in ThreadsOf(c) : threads'[t] # threads[t]
\* The step leaves Promise q, its threads and its caller as they are.
Untouched(q) ==
    /\ call_chain'[q] = call_chain[q] /\ first_call'[q] = first_call[q]
    /\ _thread'[q] = _thread[q]
    /\ {t \in 1..Len(threads') : threads'[t].self = q} = ThreadsOf(q)
    /\ \A t \in ThreadsOf(q) : threads'[t] = threads[t]
    /\ pc'[q] = pc[q] /\ returned'[q] = returned[q]
\* What the chain of Promise p makes of its own entry argument.
OwnResult(p) ==
    IF call_chain[p] = <<>> THEN first_call[p].args[1]
    ELSE EvalLink(call_chain[p][1], first_call[p].args[1]).result

\* C18: of two Promises made by two calls of the same decorated function,
\* with their threads interleaved in every way, a step on one (on, go, wait,
\* or a step of its thread) leaves the other's chain, handle and threads as
\* they are, and each wait() returns the result of its own chain applied to
\* its own entry argument.
C18_TwoPromisesIndependent ==
    /\ [](\A c \in Ctx : \A n \in DOMAIN returned[c] : returned[c][n] = OwnResult(c))
    /\ [][\A c \in Ctx : StepOf(c) => \A q \in Promises \ {c} : Untouched(q)]_vars

C18_Witness ==
    /\ returned[1] = <<IntV(3)>>
    /\ returned[2] = <<TupleV(IntV(3), IntV(0))>>
    /\ Len(calls) >= 4
    /\ calls[1].t # calls[2].t /\ calls[3].t = calls[2].t

\* The calls thread t made of link i's on_match and otherwise handlers.
OnMatchCalls(t, i) == {k \in LinkCalls(t, i) : calls[k].role = "on_match"}
OtherwiseCalls(t, i) == {k \in LinkCalls(t, i) : calls[k].role = "otherwise"}

\* C19: in one evaluation a link's on_match handler is called at most twice;
\* there is a second call only after a first call that raised an exception
\* whose message contains "unexpected keyword argument"; a first call that
\* raised anything else is the only one; an otherwise handler is called at
\* most once, whatever it raises.
C19_AtMostOneRetry ==
    \A t \in Threads : \A i \in 1..MaxChain :
       /\ Cardinality(OnMatchCalls(t, i)) <= 2
       /\ Cardinality(OtherwiseCalls(t, i)) <= 1
       /\ \A k \in OnMatchCalls(t, i) :
             IF calls[k].kw
             THEN (calls[k].out.kind # "raise" \/ ~HasKwMessage(calls[k].out.val))
                     => OnMatchCalls(t, i) = {k}
             ELSE /\ k - 1 \in OnMatchCalls(t, i)
                  /\ calls[k - 1].kw
                  /\ calls[k - 1].out.kind = "raise"
                  /\ HasKwMessage(calls[k - 1].out.val)
                  /\ OnMatchCalls(t, i) = {k - 1, k}

C19_Witness ==
    \E t \in Threads :
       /\ threads[t].pc = "done"
       /\ Cardinality(OnMatchCalls(t, 1)) = 2
       /\ \E k \in OnMatchCalls(t, 2) :
             /\ calls[k].out = Raise(NoKwArgsError)
             /\ OnMatchCalls(t, 2) = {k}

====
